---- MODULE Spec2Model ----
(***************************************************************************)
(* A model of pngme: the 4-byte chunk type (chunk_type.rs), the length-    *)
(* prefixed CRC-checked chunk record (chunk.rs), the ordered chunk          *)
(* container, and the command-line driver (main.rs).                        *)
(*                                                                          *)
(* A str / String is modelled as its sequence of chars (Unicode scalar      *)
(* values); its len() is the length of its UTF-8 encoding.  A [u8] / Vec<u8>*)
(* is a sequence of naturals in 0..255.  A Result is a record with a tag    *)
(* "Ok" or "Err"; a panic (unwrap / expect / slice index out of range) is   *)
(* the tag "Panic".  usize is taken to be 64 bits wide.                     *)
(***************************************************************************)
EXTENDS Integers, Sequences, FiniteSets

VARIABLES
    tin,        \* ChunkType: the input handed to from_str / try_from
    ctres,      \* ChunkType: the Result of the constructor
    flags,      \* ChunkType: the five predicates read from the constructed type
    rendered,   \* ChunkType: to_string() of the constructed type
    chunktype,  \* Chunk: the ChunkType argument of Chunk::new
    data,       \* Chunk: the data argument of Chunk::new
    chunk,      \* Chunk: the value built by Chunk::new
    bytes,      \* Chunk: the byte slice handed to Chunk::try_from
    edits,      \* Chunk: how many times the slice was altered after as_bytes
    parsed,     \* Chunk: the Result of Chunk::try_from(bytes)
    text,       \* Chunk: the Result of data_as_string()
    shown,      \* Chunk: the outcome of format!("{}", chunk)
    png,        \* Png: the ordered chunks of the container
    last,       \* Png: the last container operation, its argument and result
    cli,        \* main: the parsed command line
    files,      \* main: the file system, path -> contents
    pc,         \* main: the position of main
    encoded,    \* main: the Result encode_png returned
    written,    \* main: the Result write_png returned
    exit        \* main: how the process ended

vars == <<tin, ctres, flags, rendered, chunktype, data, chunk, bytes, edits,
          parsed, text, shown, png, last, cli, files, pc, encoded, written, exit>>

typeVars == <<tin, ctres, flags, rendered>>
chunkVars == <<chunktype, data, chunk, bytes, edits, parsed>>
textVars == <<text, shown>>
pngVars == <<png, last>>
cliVars == <<cli, files, pc, encoded, written, exit>>

None == [tag |-> "None"]
Ok(v) == [tag |-> "Ok", val |-> v]
Err(e) == [tag |-> "Err", err |-> e]
Panic(m) == [tag |-> "Panic", msg |-> m]

----------------------------------------------------------------------------
(* Bounds of the model.                                                     *)

MaxStrLen == 5
MaxDataLen == 2
MaxEdits == 1
MaxChunks == 3

----------------------------------------------------------------------------
(* chars, strings and UTF-8                                                 *)

\* char::is_ascii_alphabetic
IsAsciiAlphabetic(c) == (c >= 65 /\ c <= 90) \/ (c >= 97 /\ c <= 122)

\* char::is_uppercase, on the chars a u8 converts to (U+0000 .. U+00FF)
IsUppercase(c) ==
    \/ (c >= 65 /\ c <= 90)
    \/ (c >= 192 /\ c <= 222 /\ c # 215)

\* char::is_lowercase, on the chars a u8 converts to (U+0000 .. U+00FF)
IsLowercase(c) ==
    \/ (c >= 97 /\ c <= 122)
    \/ c \in {170, 181, 186}
    \/ (c >= 223 /\ c <= 255 /\ c # 247)

\* char::is_whitespace (the Unicode White_Space property), as str::trim uses it
IsWhitespace(c) ==
    \/ (c >= 9 /\ c <= 13)
    \/ c \in {32, 133, 160, 5760, 8232, 8233, 8239, 8287, 12288}
    \/ (c >= 8192 /\ c <= 8202)

\* char::len_utf8
LenUtf8(c) == IF c < 128 THEN 1 ELSE IF c < 2048 THEN 2 ELSE IF c < 65536 THEN 3 ELSE 4

\* the UTF-8 encoding of one char
EncodeChar(c) ==
    IF c < 128 THEN <<c>>
    ELSE IF c < 2048 THEN <<192 + (c \div 64), 128 + (c % 64)>>
    ELSE IF c < 65536 THEN
        <<224 + (c \div 4096), 128 + ((c \div 64) % 64), 128 + (c % 64)>>
    ELSE <<240 + (c \div 262144), 128 + ((c \div 4096) % 64),
           128 + ((c \div 64) % 64), 128 + (c % 64)>>

RECURSIVE StrAsBytes(_)
\* str::as_bytes / String::into_bytes: the UTF-8 encoding of the string
StrAsBytes(s) == IF s = <<>> THEN <<>> ELSE EncodeChar(Head(s)) \o StrAsBytes(Tail(s))

\* str::len: the length in bytes of the UTF-8 encoding
StrLen(s) == Len(StrAsBytes(s))

RECURSIVE TrimStart(_)
TrimStart(s) ==
    IF s # <<>> /\ IsWhitespace(Head(s)) THEN TrimStart(Tail(s)) ELSE s

RECURSIVE TrimEnd(_)
TrimEnd(s) ==
    IF s # <<>> /\ IsWhitespace(s[Len(s)]) THEN TrimEnd(SubSeq(s, 1, Len(s) - 1)) ELSE s

\* str::trim
Trim(s) == TrimEnd(TrimStart(s))

IsCont(b) == b >= 128 /\ b <= 191

RECURSIVE FromUtf8At(_, _, _)
\* String::from_utf8 / str::from_utf8: validates b from index i on and decodes
\* it; acc holds the chars decoded so far.
FromUtf8At(b, i, acc) ==
    IF i > Len(b) THEN Ok(acc)
    ELSE
        LET b0 == b[i]
            have(n) == i + n <= Len(b)
        IN
        IF b0 < 128 THEN FromUtf8At(b, i + 1, Append(acc, b0))
        ELSE IF b0 >= 194 /\ b0 <= 223 THEN
            IF have(1) /\ IsCont(b[i + 1])
            THEN FromUtf8At(b, i + 2, Append(acc, (b0 - 192) * 64 + (b[i + 1] - 128)))
            ELSE Err("FromUtf8Error")
        ELSE IF b0 >= 224 /\ b0 <= 239 THEN
            IF /\ have(2)
               /\ \/ (b0 = 224 /\ b[i + 1] >= 160 /\ b[i + 1] <= 191)
                  \/ (b0 >= 225 /\ b0 <= 236 /\ IsCont(b[i + 1]))
                  \/ (b0 = 237 /\ b[i + 1] >= 128 /\ b[i + 1] <= 159)
                  \/ (b0 >= 238 /\ IsCont(b[i + 1]))
               /\ IsCont(b[i + 2])
            THEN FromUtf8At(b, i + 3,
                     Append(acc, (b0 - 224) * 4096 + (b[i + 1] - 128) * 64 + (b[i + 2] - 128)))
            ELSE Err("FromUtf8Error")
        ELSE IF b0 >= 240 /\ b0 <= 244 THEN
            IF /\ have(3)
               /\ \/ (b0 = 240 /\ b[i + 1] >= 144 /\ b[i + 1] <= 191)
                  \/ (b0 >= 241 /\ b0 <= 243 /\ IsCont(b[i + 1]))
                  \/ (b0 = 244 /\ b[i + 1] >= 128 /\ b[i + 1] <= 143)
               /\ IsCont(b[i + 2])
               /\ IsCont(b[i + 3])
            THEN FromUtf8At(b, i + 4,
                     Append(acc, (b0 - 240) * 262144 + (b[i + 1] - 128) * 4096
                                 + (b[i + 2] - 128) * 64 + (b[i + 3] - 128)))
            ELSE Err("FromUtf8Error")
        ELSE Err("FromUtf8Error")

FromUtf8(b) == FromUtf8At(b, 1, <<>>)

----------------------------------------------------------------------------
(* u32 and CRC-32/ISO-HDLC.  A u32 is the pair <<hi, lo>> of its 16-bit     *)
(* halves, value hi * 65536 + lo.                                           *)

\* `n as u32` of a usize n: the low 32 bits
AsU32(n) == <<(n \div 65536) % 65536, n % 65536>>

\* u32::to_be_bytes
to_be_bytes(u) == <<u[1] \div 256, u[1] % 256, u[2] \div 256, u[2] % 256>>

\* u32::from_be_bytes
from_be_bytes(b) == <<b[1] * 256 + b[2], b[3] * 256 + b[4]>>

\* `u as usize` + k <= n, for a u32 u and usizes k <= n
FitsWithin(u, k, n) ==
    LET m == n - k IN
    /\ m >= 0
    /\ \/ u[1] < m \div 65536
       \/ (u[1] = m \div 65536 /\ u[2] <= m % 65536)

\* `u as usize`, of a u32 that FitsWithin a slice length
AsUsize(u) == u[1] * 65536 + u[2]

RECURSIVE XorBits(_, _)
\* the bitwise exclusive or (^) of two naturals
XorBits(a, b) ==
    IF a = 0 THEN b
    ELSE IF b = 0 THEN a
    ELSE ((a + b) % 2) + 2 * XorBits(a \div 2, b \div 2)

\* u32 ^ u32
Xor32(u, v) == <<XorBits(u[1], v[1]), XorBits(u[2], v[2])>>

\* u32 >> 1
Shr1(u) == <<u[1] \div 2, (u[1] % 2) * 32768 + (u[2] \div 2)>>

\* The reflected polynomial of CRC_32_ISO_HDLC, 0xEDB88320.
CrcPoly == <<60856, 33568>>

\* 0xFFFFFFFF: the init and xorout of CRC_32_ISO_HDLC
CrcOnes == <<65535, 65535>>

RECURSIVE CrcShift(_, _)
\* k steps of the reflected bitwise division
CrcShift(c, k) ==
    IF k = 0 THEN c
    ELSE IF c[2] % 2 = 1 THEN CrcShift(Xor32(Shr1(c), CrcPoly), k - 1)
    ELSE CrcShift(Shr1(c), k - 1)

RECURSIVE CrcUpdate(_, _)
CrcUpdate(c, b) ==
    IF b = <<>> THEN c
    ELSE CrcUpdate(CrcShift(Xor32(c, <<0, Head(b)>>), 8), Tail(b))

\* PNG_CRC.checksum: init 0xFFFFFFFF, reflected in and out, xorout 0xFFFFFFFF
Checksum(b) == Xor32(CrcUpdate(CrcOnes, b), CrcOnes)

----------------------------------------------------------------------------
(* chunk_type.rs: a ChunkType is its 4 bytes.                               *)

CHUNK_SIZE == 4

\* impl TryFrom<[u8; CHUNK_SIZE]> for ChunkType
ChunkType_try_from(b) ==
    IF \A i \in 1..CHUNK_SIZE : IsAsciiAlphabetic(b[i])
    THEN Ok(b)
    ELSE Err("Chunk type is not ascii alphabetic")

\* from_str with the length check counting chars instead of bytes
from_str_chars(s) ==
    LET chunk_type == Trim(s) IN
    IF Len(chunk_type) # CHUNK_SIZE THEN Err("Invalid size of chunk type.")
    ELSE IF ~(\A i \in 1..Len(chunk_type) : IsAsciiAlphabetic(chunk_type[i]))
    THEN Err("Invalid ascii characters.")
    ELSE Ok(StrAsBytes(chunk_type))

\* impl FromStr for ChunkType
from_str(s) ==
    LET chunk_type == Trim(s) IN
    IF StrLen(chunk_type) # CHUNK_SIZE THEN Err("Invalid size of chunk type.")
    ELSE IF ~(\A i \in 1..Len(chunk_type) : IsAsciiAlphabetic(chunk_type[i]))
    THEN Err("Invalid ascii characters.")
    ELSE Ok(StrAsBytes(chunk_type))

\* ChunkType::bytes
type_bytes(ct) == ct

\* impl fmt::Display for ChunkType, as to_string() uses it
to_string(ct) ==
    LET v == FromUtf8(type_bytes(ct)) IN
    IF v.tag = "Ok" THEN Ok(v.val) ELSE Panic("Invalid UTF-8")

\* ChunkType::at_byte (idx counts from 0)
at_byte(ct, idx) == type_bytes(ct)[idx + 1]

is_critical(ct) == IsUppercase(at_byte(ct, 0))

is_public(ct) == IsUppercase(at_byte(ct, 1))

is_reserved_bit_valid(ct) == IsUppercase(at_byte(ct, 2))

is_safe_to_copy(ct) == IsLowercase(at_byte(ct, 3))

\* is_valid taking the public chunks for the valid ones
is_valid_public(ct) == is_public(ct) /\ is_reserved_bit_valid(ct)

is_valid(ct) == ~is_public(ct) /\ is_reserved_bit_valid(ct)

----------------------------------------------------------------------------
(* chunk.rs: a Chunk is the record of its four fields.                      *)

\* Chunk::new with the checksum taken over the data alone
Chunk_new_data_crc(t, d) ==
    [length |-> AsU32(Len(d)), chunktype |-> t, data |-> d, crc |-> Checksum(d)]

\* Chunk::new
Chunk_new(t, d) ==
    [length |-> AsU32(Len(d)), chunktype |-> t, data |-> d,
     crc |-> Checksum(type_bytes(t) \o d)]

\* Chunk::as_bytes
as_bytes(c) ==
    to_be_bytes(c.length) \o type_bytes(c.chunktype) \o c.data \o to_be_bytes(c.crc)

\* try_from without the comparison of the stored and the computed crc
Chunk_try_from_unchecked(b) ==
    IF Len(b) < 12 THEN Err("Chunk does not contain enough information")
    ELSE
        LET length == from_be_bytes(SubSeq(b, 1, 4))
            chunktype_bytes == SubSeq(b, 5, 4 + CHUNK_SIZE)
            ct == ChunkType_try_from(chunktype_bytes)
        IN
        IF ct.tag # "Ok" THEN Panic("unwrap on an Err value")
        ELSE IF ~FitsWithin(length, 12, Len(b)) THEN Panic("range end index out of range")
        ELSE
            LET n == AsUsize(length) IN
            Ok([length |-> length, chunktype |-> ct.val, data |-> SubSeq(b, 9, 8 + n),
                crc |-> from_be_bytes(SubSeq(b, 9 + n, 12 + n))])

\* try_from reading the stored crc from the last 4 bytes of the slice
Chunk_try_from_trailing(b) ==
    IF Len(b) < 12 THEN Err("Chunk does not contain enough information")
    ELSE
        LET length == from_be_bytes(SubSeq(b, 1, 4))
            chunktype_bytes == SubSeq(b, 5, 4 + CHUNK_SIZE)
            ct == ChunkType_try_from(chunktype_bytes)
        IN
        IF ct.tag # "Ok" THEN Panic("unwrap on an Err value")
        ELSE IF ~FitsWithin(length, 12, Len(b)) THEN Panic("range end index out of range")
        ELSE
            LET n == AsUsize(length)
                d == SubSeq(b, 9, 8 + n)
                crc == from_be_bytes(SubSeq(b, Len(b) - 3, Len(b)))
            IN
            IF crc # Checksum(chunktype_bytes \o d) THEN Err("CRC mismatch")
            ELSE Ok([length |-> length, chunktype |-> ct.val, data |-> d, crc |-> crc])

\* impl TryFrom<&[u8]> for Chunk.  The slice bytes[8..8 + length] panics when
\* 8 + length exceeds the slice, bytes[8 + length..12 + length] when 12 + length
\* does: both are the one panic "range end index out of range".
Chunk_try_from(b) ==
    IF Len(b) < 12 THEN Err("Chunk does not contain enough information")
    ELSE
        LET length == from_be_bytes(SubSeq(b, 1, 4))
            chunktype_bytes == SubSeq(b, 5, 4 + CHUNK_SIZE)
            ct == ChunkType_try_from(chunktype_bytes)
        IN
        IF ct.tag # "Ok" THEN Panic("unwrap on an Err value")
        ELSE IF ~FitsWithin(length, 12, Len(b)) THEN Panic("range end index out of range")
        ELSE
            LET n == AsUsize(length)
                d == SubSeq(b, 9, 8 + n)
                crc == from_be_bytes(SubSeq(b, 9 + n, 12 + n))
            IN
            IF crc # Checksum(chunktype_bytes \o d) THEN Err("CRC mismatch")
            ELSE Ok([length |-> length, chunktype |-> ct.val, data |-> d, crc |-> crc])

\* Chunk::data_as_string: Ok(String::from_utf8(..).expect(..))
data_as_string(c) ==
    LET v == FromUtf8(c.data) IN
    IF v.tag = "Ok" THEN Ok(v.val) ELSE Panic("Data are not valid UTF-8")

\* impl fmt::Display for Chunk, as format!("{}", chunk) uses it
Chunk_fmt(c) ==
    LET v == FromUtf8(c.data) IN
    IF v.tag = "Ok" THEN Ok(v.val) ELSE Panic("Invalid UTF-8")

----------------------------------------------------------------------------
(* The values the variables of a component hold while another component     *)
(* is exercised.                                                            *)

TypeIdle == tin = None /\ ctres = None /\ flags = None /\ rendered = None

ChunkIdle ==
    /\ chunktype = <<>> /\ data = <<>> /\ chunk = None
    /\ bytes = <<>> /\ edits = 0 /\ parsed = None

TextIdle == text = None /\ shown = None

\* no container operation yet
NoOp == [op |-> "none"]

PngIdle == png = <<>> /\ last = NoOp

CliIdle ==
    /\ cli = None /\ files = None /\ pc = "idle"
    /\ encoded = None /\ written = None /\ exit = None

\* The sequences over S of length at most n
SeqsUpTo(S, n) == UNION {[1..k -> S] : k \in 0..n}

----------------------------------------------------------------------------
(* ChunkType: a type is constructed from a string or from 4 bytes, then its *)
(* predicates are read and it is rendered.                                  *)

\* 'R', 'u', '1', ' ' and U+00E9 (2 bytes in UTF-8)
StrChars == {82, 117, 49, 32, 233}

\* 'A', 'Z', 'a', 'z', 'R', 'u', and the non-letters '1', '@', '[', '`', '{'
TypeByteSet == {65, 90, 97, 122, 82, 117, 49, 64, 91, 96, 123}

InitType ==
    /\ \/ \E s \in SeqsUpTo(StrChars, MaxStrLen) : tin = [kind |-> "str", s |-> s]
       \/ \E b \in [1..CHUNK_SIZE -> TypeByteSet] : tin = [kind |-> "bytes", b |-> b]
    /\ ctres = None /\ flags = None /\ rendered = None
    /\ ChunkIdle /\ TextIdle /\ PngIdle /\ CliIdle

\* ChunkType::from_str(s)
FromStr ==
    /\ tin.kind = "str" /\ ctres = None
    /\ ctres' = from_str(tin.s)
    /\ UNCHANGED <<tin, flags, rendered, chunkVars, textVars, pngVars, cliVars>>

\* ChunkType::try_from(bytes)
TryFromBytes ==
    /\ tin.kind = "bytes" /\ ctres = None
    /\ ctres' = ChunkType_try_from(tin.b)
    /\ UNCHANGED <<tin, flags, rendered, chunkVars, textVars, pngVars, cliVars>>

\* the five predicates of the constructed type
ReadFlags ==
    /\ ctres.tag = "Ok" /\ flags = None
    /\ flags' = [is_critical |-> is_critical(ctres.val),
                 is_public |-> is_public(ctres.val),
                 is_reserved_bit_valid |-> is_reserved_bit_valid(ctres.val),
                 is_safe_to_copy |-> is_safe_to_copy(ctres.val),
                 is_valid |-> is_valid(ctres.val)]
    /\ UNCHANGED <<tin, ctres, rendered, chunkVars, textVars, pngVars, cliVars>>

\* chunk_type.to_string()
ToString ==
    /\ ctres.tag = "Ok" /\ rendered = None
    /\ rendered' = to_string(ctres.val)
    /\ UNCHANGED <<tin, ctres, flags, chunkVars, textVars, pngVars, cliVars>>

NextType == FromStr \/ TryFromBytes \/ ReadFlags \/ ToString

SpecType == InitType /\ [][NextType]_vars

\* bit 5 of a byte
Bit5(b) == (b \div 32) % 2

C7_Original ==
    (tin # None /\ tin.kind = "str" /\ ctres # None) =>
        LET t == Trim(tin.s) IN
        IF Len(t) # 4 THEN ctres = Err("Invalid size of chunk type.")
        ELSE IF \E i \in 1..Len(t) : ~IsAsciiAlphabetic(t[i])
        THEN ctres = Err("Invalid ascii characters.")
        ELSE /\ ctres = Ok(t)
             /\ rendered # None => rendered = Ok(t)

\* C7 as amended: the length that is checked is the length in bytes of the
\* UTF-8 encoding of t (which is its number of characters only when t is ASCII).
C7_ParseStr ==
    (tin # None /\ tin.kind = "str" /\ ctres # None) =>
        LET t == Trim(tin.s) IN
        IF Len(StrAsBytes(t)) # 4 THEN ctres = Err("Invalid size of chunk type.")
        ELSE IF \E i \in 1..Len(t) : ~IsAsciiAlphabetic(t[i])
        THEN ctres = Err("Invalid ascii characters.")
        ELSE /\ ctres = Ok(t)
             /\ rendered # None => rendered = Ok(t)

\* a string with surrounding whitespace was accepted and rendered
C7_Witness ==
    /\ tin # None /\ tin.kind = "str"
    /\ tin.s # Trim(tin.s)
    /\ ctres.tag = "Ok"
    /\ rendered = Ok(Trim(tin.s))

----------------------------------------------------------------------------
(* Chunk: a chunk is built by Chunk::new from a type and data, serialized    *)
(* by as_bytes, the bytes are altered on the way (a byte replaced, the tail  *)
(* cut off, a byte appended) and handed to Chunk::try_from.                  *)

\* "RuSt" and "ruSt"
ChunkTypes == {<<82, 117, 83, 116>>, <<114, 117, 83, 116>>}

\* 'A', and 0xC3 0xA9, together the UTF-8 encoding of U+00E9
DataBytes == {65, 195, 169}

\* NUL, 0x01, '@', 'A' and 0xFF
EditBytes == {0, 1, 64, 65, 255}

Init ==
    /\ chunktype \in ChunkTypes
    /\ data \in SeqsUpTo(DataBytes, MaxDataLen)
    /\ chunk = None /\ bytes = <<>> /\ edits = 0 /\ parsed = None
    /\ TypeIdle /\ TextIdle /\ PngIdle /\ CliIdle

\* Chunk::new(chunktype, data)
New ==
    /\ chunk = None
    /\ chunk' = Chunk_new(chunktype, data)
    /\ UNCHANGED <<chunktype, data, bytes, edits, parsed, typeVars, textVars, pngVars, cliVars>>

\* chunk.as_bytes()
AsBytes ==
    /\ chunk # None /\ bytes = <<>> /\ parsed = None
    /\ bytes' = as_bytes(chunk)
    /\ UNCHANGED <<chunktype, data, chunk, edits, parsed, typeVars, textVars, pngVars, cliVars>>

\* one byte of the serialized chunk is replaced by another value
Tamper ==
    /\ bytes # <<>> /\ parsed = None /\ edits < MaxEdits
    /\ \E i \in 1..Len(bytes), v \in EditBytes :
        /\ v # bytes[i]
        /\ bytes' = [bytes EXCEPT ![i] = v]
    /\ edits' = edits + 1
    /\ UNCHANGED <<chunktype, data, chunk, parsed, typeVars, textVars, pngVars, cliVars>>

\* the serialized chunk is cut short
Truncate ==
    /\ bytes # <<>> /\ parsed = None /\ edits < MaxEdits
    /\ \E n \in 1..(Len(bytes) - 1) : bytes' = SubSeq(bytes, 1, n)
    /\ edits' = edits + 1
    /\ UNCHANGED <<chunktype, data, chunk, parsed, typeVars, textVars, pngVars, cliVars>>

\* a byte follows the serialized chunk
Extend ==
    /\ bytes # <<>> /\ parsed = None /\ edits < MaxEdits
    /\ \E v \in EditBytes : bytes' = Append(bytes, v)
    /\ edits' = edits + 1
    /\ UNCHANGED <<chunktype, data, chunk, parsed, typeVars, textVars, pngVars, cliVars>>

\* Chunk::try_from(bytes)
TryFrom ==
    /\ parsed = None
    /\ parsed' = Chunk_try_from(bytes)
    /\ UNCHANGED <<chunktype, data, chunk, bytes, edits, typeVars, textVars, pngVars, cliVars>>

Next == New \/ AsBytes \/ Tamper \/ Truncate \/ Extend \/ TryFrom

Spec == Init /\ [][Next]_vars

\* chunk.data_as_string()
DataAsString ==
    /\ chunk # None /\ text = None
    /\ text' = data_as_string(chunk)
    /\ UNCHANGED <<chunkVars, shown, typeVars, pngVars, cliVars>>

\* format!("{}", chunk)
Display ==
    /\ chunk # None /\ shown = None
    /\ shown' = Chunk_fmt(chunk)
    /\ UNCHANGED <<chunkVars, text, typeVars, pngVars, cliVars>>

NextText == New \/ DataAsString \/ Display

SpecText == Init /\ [][NextText]_vars

\* the length the first 4 bytes of the slice declare does not fit the slice
DeclaredTooLong(b) == ~FitsWithin(from_be_bytes(SubSeq(b, 1, 4)), 12, Len(b))

\* the slice is the serialized chunk with the byte at index i replaced
TamperedAt(i) ==
    LET orig == as_bytes(chunk) IN
    /\ Len(bytes) = Len(orig)
    /\ bytes[i] # orig[i]
    /\ \A j \in 1..Len(orig) : j # i => bytes[j] = orig[j]

\* C1: parsing the bytes as_bytes produced of Chunk::new(t, d) succeeds with a
\* chunk of the same length, type, data and crc.
C1_RoundTrip ==
    (chunk # None /\ bytes # <<>> /\ edits = 0 /\ parsed # None) =>
        /\ parsed.tag = "Ok"
        /\ parsed.val.length = chunk.length
        /\ parsed.val.chunktype = chunktype
        /\ parsed.val.data = data
        /\ parsed.val.crc = chunk.crc

\* a chunk with data went through as_bytes and try_from
C1_Witness ==
    /\ chunk # None /\ edits = 0 /\ parsed.tag = "Ok"
    /\ Len(data) = 2 /\ parsed.val.data = data

\* C2 as claimed: a slice of fewer than 12 bytes, or of fewer than 12 + L bytes
\* with L the length its first 4 bytes declare, parses to the
\* insufficient-data error.
C2_Original ==
    (parsed # None /\ (Len(bytes) < 12 \/ DeclaredTooLong(bytes))) =>
        parsed = Err("Chunk does not contain enough information")

\* C3: a serialized chunk with one data byte replaced parses to the CRC
\* mismatch error; and a parse succeeds only if the crc stored after the data
\* is the CRC-32 of the 4 type bytes followed by the data bytes.
C3_CrcTamper ==
    /\ (chunk # None /\ parsed # None /\ \E i \in 9..(8 + Len(data)) : TamperedAt(i)) =>
            parsed = Err("CRC mismatch")
    /\ parsed.tag = "Ok" =>
            LET n == Len(parsed.val.data) IN
            from_be_bytes(SubSeq(bytes, 9 + n, 12 + n)) = Checksum(SubSeq(bytes, 5, 8 + n))

\* a chunk whose second data byte was replaced was parsed
C3_Witness ==
    /\ chunk # None /\ parsed.tag = "Err"
    /\ Len(data) = 2 /\ TamperedAt(10)

\* C4 as claimed: a slice of at least 12 bytes whose bytes 4..8 are not all
\* ASCII letters parses to the error of ChunkType::try_from.
C4_Original ==
    (parsed # None /\ Len(bytes) >= 12
        /\ \E i \in 5..8 : ~IsAsciiAlphabetic(bytes[i])) =>
        parsed = Err("Chunk type is not ascii alphabetic")

\* C5 as claimed: data_as_string returns an error value when the data is not
\* valid UTF-8 and the text when it is, and rendering the chunk does not abort.
C5_Original ==
    /\ text # None =>
            IF FromUtf8(data).tag = "Ok"
            THEN text = Ok(FromUtf8(data).val)
            ELSE text.tag = "Err"
    /\ shown # None => shown.tag # "Panic"

\* C9: a successful parse with declared length L yields a chunk of that length
\* whose serialization is the first 12 + L bytes of the slice, its crc read at
\* offset 8 + L; and bytes that follow a serialized chunk are ignored.
C9_Prefix ==
    /\ parsed.tag = "Ok" =>
            LET L == from_be_bytes(SubSeq(bytes, 1, 4))
                n == Len(parsed.val.data)
            IN
            /\ 12 + n <= Len(bytes)
            /\ L = AsU32(n)
            /\ parsed.val.length = L
            /\ parsed.val.crc = from_be_bytes(SubSeq(bytes, 9 + n, 12 + n))
            /\ as_bytes(parsed.val) = SubSeq(bytes, 1, 12 + n)
    /\ (chunk # None /\ parsed # None /\ Len(bytes) >= 12 + Len(data)
            /\ SubSeq(bytes, 1, 12 + Len(data)) = as_bytes(chunk)) =>
            parsed = Ok(chunk)

\* a slice with a byte after the chunk was parsed
C9_Witness ==
    /\ parsed.tag = "Ok"
    /\ Len(bytes) > 12 + Len(parsed.val.data)
    /\ Len(parsed.val.data) > 0

----------------------------------------------------------------------------
(* Png: the container is its ordered sequence of chunks.  Chunks are         *)
(* appended, looked up by type code and removed by type code.                *)

\* the chunk's type rendered as a string equals the type code
HasType(c, type_code) == to_string(c.chunktype) = Ok(type_code)

\* the indices of the chunks of the type
Matching(chunks, type_code) == {i \in 1..Len(chunks) : HasType(chunks[i], type_code)}

Min(S) == CHOOSE i \in S : \A j \in S : i <= j

Max(S) == CHOOSE i \in S : \A j \in S : i >= j

RemoveAt(chunks, k) == SubSeq(chunks, 1, k - 1) \o SubSeq(chunks, k + 1, Len(chunks))

\* Png::append_chunk
append_chunk(chunks, c) == Append(chunks, c)

\* Png::chunk_by_type
chunk_by_type(chunks, type_code) ==
    LET m == Matching(chunks, type_code) IN
    IF m = {} THEN None ELSE Ok(chunks[Min(m)])

\* remove_chunk taking the last chunk of the type
remove_chunk_last(chunks, type_code) ==
    LET m == Matching(chunks, type_code) IN
    IF m = {} THEN [chunks |-> chunks, result |-> Err("ChunkNotFound")]
    ELSE [chunks |-> RemoveAt(chunks, Max(m)), result |-> Ok(chunks[Max(m)])]

\* Png::remove_chunk: the container it leaves and the Result it returns
remove_chunk(chunks, type_code) ==
    LET m == Matching(chunks, type_code) IN
    IF m = {} THEN [chunks |-> chunks, result |-> Err("ChunkNotFound")]
    ELSE [chunks |-> RemoveAt(chunks, Min(m)), result |-> Ok(chunks[Min(m)])]

\* the payloads of the chunks in a container: none, and 'A'
PngData == {<<>>, <<65>>}

\* the type codes asked for: "RuSt", "ruSt" and "RuST"
TypeCodes == {<<82, 117, 83, 116>>, <<114, 117, 83, 116>>, <<82, 117, 83, 84>>}

InitPng ==
    /\ png = <<>> /\ last = NoOp
    /\ TypeIdle /\ ChunkIdle /\ TextIdle /\ CliIdle

AppendChunk ==
    /\ Len(png) < MaxChunks
    /\ \E t \in ChunkTypes, d \in PngData :
        /\ png' = append_chunk(png, Chunk_new(t, d))
        /\ last' = [op |-> "append_chunk"]
    /\ UNCHANGED <<typeVars, chunkVars, textVars, cliVars>>

ChunkByType ==
    /\ \E type_code \in TypeCodes :
        last' = [op |-> "chunk_by_type", type_code |-> type_code,
                 result |-> chunk_by_type(png, type_code)]
    /\ UNCHANGED <<png, typeVars, chunkVars, textVars, cliVars>>

\* remove_chunk(type_code); `looked` keeps what chunk_by_type(type_code) returned
\* when it was the call just before
RemoveChunk ==
    /\ \E type_code \in TypeCodes :
        LET r == remove_chunk(png, type_code) IN
        /\ png' = r.chunks
        /\ last' = [op |-> "remove_chunk", type_code |-> type_code, before |-> png,
                    result |-> r.result,
                    looked |-> IF last.op = "chunk_by_type" /\ last.type_code = type_code
                               THEN [called |-> TRUE, result |-> last.result]
                               ELSE [called |-> FALSE]]
    /\ UNCHANGED <<typeVars, chunkVars, textVars, cliVars>>

NextPng == AppendChunk \/ ChunkByType \/ RemoveChunk

SpecPng == InitPng /\ [][NextPng]_vars

\* C8: remove_chunk(T) on a container without a chunk of type T fails with
\* ChunkNotFound and leaves the chunks unchanged; otherwise it returns the
\* first chunk of type T and leaves the old sequence with exactly that element
\* deleted, and chunk_by_type(T) just before returned that same chunk.
C8_RemoveFirst ==
    last.op = "remove_chunk" =>
        LET old == last.before
            T == last.type_code
            idx == {i \in 1..Len(old) : old[i].chunktype = T}
        IN
        IF idx = {}
        THEN /\ last.result = Err("ChunkNotFound")
             /\ png = old
             /\ last.looked.called => last.looked.result = None
        ELSE \E k \in idx :
                /\ \A j \in idx : k <= j
                /\ last.result = Ok(old[k])
                /\ Len(png) = Len(old) - 1
                /\ \A j \in 1..Len(png) : png[j] = IF j < k THEN old[j] ELSE old[j + 1]
                /\ last.looked.called => last.looked.result = Ok(old[k])

\* a chunk was removed after a lookup, and a later chunk of its type remains
C8_Witness ==
    /\ last.op = "remove_chunk"
    /\ last.result.tag = "Ok"
    /\ last.looked.called
    /\ \E i \in 1..Len(png) :
        /\ png[i].chunktype = last.type_code
        /\ png[i] # last.result.val

----------------------------------------------------------------------------
(* main: one run of the program on a command line.                          *)

\* "in.png" is the file named on the command line, "out.png" the --output
InPath == "in.png"
OutPath == "out.png"

\* the chunk_type arguments: "RuSt", "Ru1t", " ruSt", "Ru"
CliTypes == {<<82, 117, 83, 116>>, <<82, 117, 49, 116>>,
             <<32, 114, 117, 83, 116>>, <<82, 117>>}

\* the message arguments: "A" and U+00E9
CliMessages == {<<65>>, <<233>>}

\* a well-formed PNG file holding the chunks
PngFile(chunks) == [kind |-> "png", chunks |-> chunks]

Absent == [kind |-> "absent"]

Empty == [kind |-> "empty"]

InitCli ==
    /\ \/ \E chunk_type \in CliTypes, message \in CliMessages, output \in {None, Ok(OutPath)} :
            cli = [filename |-> InPath, command |-> "encode", chunk_type |-> chunk_type,
                   message |-> message, output |-> output]
       \/ \E command \in {"decode", "remove"}, chunk_type \in CliTypes :
            cli = [filename |-> InPath, command |-> command, chunk_type |-> chunk_type]
       \/ cli = [filename |-> InPath, command |-> "print"]
    /\ \E in \in {Absent, PngFile(<<>>), PngFile(<<Chunk_new(<<82, 117, 83, 116>>, <<65>>)>>)},
          out \in {Absent, PngFile(<<>>)} :
        files = [p \in {InPath, OutPath} |-> IF p = InPath THEN in ELSE out]
    /\ pc = "start" /\ png = <<>> /\ last = NoOp
    /\ encoded = None /\ written = None /\ exit = None
    /\ TypeIdle /\ ChunkIdle /\ TextIdle

\* read_png(&cli.filename)?: fs::read fails on a missing file, and main returns
\* the error
ReadPng ==
    /\ pc = "start"
    /\ IF files[cli.filename].kind = "png"
       THEN /\ png' = files[cli.filename].chunks
            /\ pc' = "match"
            /\ exit' = exit
       ELSE /\ png' = png
            /\ pc' = "done"
            /\ exit' = Err("read_png")
    /\ UNCHANGED <<cli, files, encoded, written, last, typeVars, chunkVars, textVars>>

\* encode_png(&mut png, chunk_type, message): its Result is dropped by main
EncodePng ==
    /\ pc = "match" /\ cli.command = "encode"
    /\ LET ct == from_str(cli.chunk_type) IN
       IF ct.tag = "Ok"
       THEN /\ png' = append_chunk(png, Chunk_new(ct.val, StrAsBytes(cli.message)))
            /\ encoded' = Ok("png")
       ELSE /\ png' = png
            /\ encoded' = ct
    /\ pc' = "write"
    /\ UNCHANGED <<cli, files, written, exit, last, typeVars, chunkVars, textVars>>

\* write_png(out_file or filename, &png): opens the file (read, create, append)
\* and returns; the open may fail.  Its Result is dropped by main.
WritePng ==
    /\ pc = "write"
    /\ LET path == IF cli.output = None THEN cli.filename ELSE cli.output.val IN
       \E opens \in BOOLEAN :
           IF opens
           THEN /\ files' = [files EXCEPT ![path] = IF @ = Absent THEN Empty ELSE @]
                /\ written' = Ok("unit")
           ELSE /\ files' = files
                /\ written' = Err("open")
    /\ pc' = "return"
    /\ UNCHANGED <<cli, png, encoded, exit, last, typeVars, chunkVars, textVars>>

\* Commands::decode and Commands::remove: todo!()
Todo ==
    /\ pc = "match" /\ cli.command \in {"decode", "remove"}
    /\ exit' = Panic("not yet implemented")
    /\ pc' = "done"
    /\ UNCHANGED <<cli, files, png, encoded, written, last, typeVars, chunkVars, textVars>>

\* Commands::print: print_chunks(&png); what is printed is not part of the state
PrintChunks ==
    /\ pc = "match" /\ cli.command = "print"
    /\ pc' = "return"
    /\ UNCHANGED <<cli, files, png, encoded, written, exit, last, typeVars, chunkVars, textVars>>

\* the Ok(()) that ends main
ReturnOk ==
    /\ pc = "return"
    /\ exit' = Ok("unit")
    /\ pc' = "done"
    /\ UNCHANGED <<cli, files, png, encoded, written, last, typeVars, chunkVars, textVars>>

NextCli == ReadPng \/ EncodePng \/ WritePng \/ Todo \/ PrintChunks \/ ReturnOk

SpecCli == InitCli /\ [][NextCli]_vars

\* C10 as claimed: an encode run on a readable PNG whose chunk type cannot be
\* constructed, or whose output cannot be written, does not end in success;
\* and one that ends in success has appended the chunk of the given type and
\* message and written the container to the output path, or to the input path
\* when no output is given.
C10_Original ==
    (pc = "done" /\ cli.command = "encode" /\ files[InPath].kind # "absent") =>
        /\ (encoded.tag = "Err" \/ written.tag = "Err") => exit.tag # "Ok"
        /\ exit.tag = "Ok" =>
            /\ Len(png) > 0
            /\ HasType(png[Len(png)], Trim(cli.chunk_type))
            /\ png[Len(png)].data = StrAsBytes(cli.message)
            /\ files[IF cli.output = None THEN InPath ELSE OutPath] = PngFile(png)

====
